---- MODULE Spec2Model ----
(***************************************************************************)
(* A model of truelle (src/truelle/__init__.py): the Scheduler, the        *)
(* MiddlewareChain with its two built-in middlewares, the Downloader       *)
(* boundary and the Crawler.crawl generator.                               *)
(*                                                                         *)
(* Specifications (the first three share the chain's steps):              *)
(*   Spec           - Crawler instances (chain = [Dedup, HttpCache])       *)
(*                    crawling a spider, one generator step at a time;     *)
(*   ChainSpec      - MiddlewareChain.process on an arbitrary middleware   *)
(*                    list;                                                *)
(*   MiddlewareSpec - as Spec, the chain ending with a user middleware;    *)
(*   SchedulerSpec  - a Scheduler under arbitrary calls.                   *)
(***************************************************************************)
EXTENDS Integers, Sequences, FiniteSets, TLC

(* ---------------------------- bounds ----------------------------------- *)
\* Crawler instances constructed in one behaviour (cold run, warm run).
MaxRuns == 2
\* Cache files damaged by the environment in one behaviour.
MaxCorrupt == 1
\* add_request calls made on a Scheduler in one behaviour of SchedulerSpec.
MaxAdds == 3
\* Longest middleware list given to a MiddlewareChain in ChainSpec.
MaxChain == 3
\* MiddlewareChain.process invocations in one behaviour of ChainSpec.
MaxCalls == 2

(* ---------------------------- values ----------------------------------- *)
None == [type |-> "NoneType"]

UrlA == "http://x/a"
UrlAUpper == "HTTP://X/A"
UrlAPath == "http://x/A"
UrlB == "http://x/b"
UrlRoot == "http://x"
UrlRootSlash == "http://x/"

\* Every URL string that occurs: the spiders' URLs and what requests makes of them.
Urls == {UrlA, UrlAUpper, UrlAPath, UrlB, UrlRoot, UrlRootSlash}

\* str.lower() on the URL strings of the model.
lower(u) ==
  CASE u = UrlAUpper -> UrlA
    [] u = UrlAPath -> UrlA
    [] OTHER -> u

\* requests.Request(method, url).prepare(): PreparedRequest.url has the scheme
\* and host lower-cased, the path kept as written, and an empty path made "/".
prepare_url(u) ==
  CASE u = UrlAUpper -> UrlAPath
    [] u = UrlRoot -> UrlRootSlash
    [] OTHER -> u

\* hashlib.sha1(b).hexdigest(): injective on the byte strings of the model.
sha1(b) == <<"sha1", b>>

Request(url, callback) ==
  [type |-> "Request", url |-> url, method |-> "get", callback |-> callback]

\* The requests.PreparedRequest built in Downloader.fetch: not a truelle Request.
PreparedRequest(url) ==
  [type |-> "PreparedRequest", url |-> prepare_url(url), method |-> "GET"]

\* bytes.decode of a page body (requests' res.text).
decode(body) == <<"text", body>>

Response(url, status, headers, body, text, request) ==
  [type |-> "Response", url |-> url, status |-> status, headers |-> headers,
   body |-> body, text |-> text, request |-> request]

isinstance(v, cls) == v.type = cls

\* The page bodies the server may answer with (the page may change between fetches).
Bodies == {"page-v1", "page-v2"}

(* ------------------------- RequestFingerprinter ------------------------ *)
fingerprint(request) == sha1(lower(request.url))

Fingerprints == {sha1(lower(u)) : u \in Urls}

(* ------------------------------ Scheduler ------------------------------ *)
\* Variant: insert(0, request) instead of append.
add_request_front(q, r) == <<r>> \o q

add_request(q, r) == Append(q, r)

has_next(q) == Len(q) > 0

\* Variant: pop() takes the newest request instead of the oldest.
next_request_last(q) ==
  IF Len(q) = 0 THEN [value |-> None, queue |-> q]
  ELSE [value |-> q[Len(q)], queue |-> SubSeq(q, 1, Len(q) - 1)]

\* next_request: the value returned and the queue left behind.
next_request(q) ==
  IF Len(q) = 0 THEN [value |-> None, queue |-> q]
  ELSE [value |-> Head(q), queue |-> Tail(q)]

(* ------------------------------ state ---------------------------------- *)
VARIABLES
  spider,           \* the Spider given to every Crawler of the behaviour
  files,            \* the cache directory on disk: fingerprint -> file
  corrupted,        \* how many cache files the environment has damaged
  enabled,          \* HttpCacheMiddleware._enabled (settings HTTP_CACHE_ENABLED)
  middlewares,      \* MiddlewareChain._middlewares: the classes, in list order
  seen_requests,    \* DeduplicationMiddleware._seen_requests, per list position
  requests,         \* Scheduler.requests
  pc,               \* where the crawl() generator stands
  req,              \* Crawler.crawl: the popped request
  results,          \* Crawler.crawl: callback values not yet handled
  cpc,              \* where MiddlewareChain.process stands
  ret,              \* MiddlewareChain.process: ret
  exc,              \* the exception leaving MiddlewareChain.process, or None
  backwards_chain,  \* MiddlewareChain.process: backwards_chain (list positions)
  i,                \* position of the forward walk
  j,                \* position of the walk over the response list
  calls,            \* history: the hooks and fetches of this process invocation
  ncalls,           \* history: process invocations started (ChainSpec)
  runs,             \* history: crawl() calls made
  log               \* history: one record per Crawler instance constructed

vars == <<spider, files, corrupted, enabled, middlewares, seen_requests, requests,
          pc, req, results, cpc, ret, exc, backwards_chain, i, j, calls, ncalls,
          runs, log>>

(* --------------------------- exceptions -------------------------------- *)
CancelRequest == [type |-> "CancelRequest"]
\* pickle.load on a truncated or damaged file.
UnpicklingError == [type |-> "UnpicklingError"]
\* requests' transport failure out of Session.send.
ConnectionError == [type |-> "ConnectionError"]

raised(v) == v.type \in {"CancelRequest", "UnpicklingError", "ConnectionError"}

(* ---------------------------- cache files ------------------------------ *)
Missing == [type |-> "missing"]
Corrupt == [type |-> "corrupt"]

\* pickle.dump(response, f) and pickle.load(f): the file holds the serialized
\* record, and loading a well-formed file gives back an equal Response.
pickle_dump(response) == [type |-> "file", bytes |-> <<"pickle", response>>]
pickle_load(file) ==
  IF file.type = "corrupt" THEN UnpicklingError ELSE file.bytes[2]

(* ------------------------- HttpCacheMiddleware ------------------------- *)
\* _store_response: the cache directory after the write.
store_response(request, response) ==
  [files EXCEPT ![fingerprint(request)] = pickle_dump(response)]

\* _retrieve_response: None when no file exists, else whatever pickle.load does.
retrieve_response(request) ==
  LET path == fingerprint(request)
  IN IF files[path].type = "missing" THEN None ELSE pickle_load(files[path])

\* The argument of _store_response in process_response (line 113).
store_key(response) == response.request

HttpCache_process_request(request) ==
  IF ~enabled THEN request
  ELSE LET cached_response == retrieve_response(request)
       IN IF cached_response.type # "NoneType" THEN cached_response ELSE request

\* Variant: process_response without the test of self._enabled.
HttpCache_process_response_always(response) ==
  [out |-> response, files |-> store_response(store_key(response), response)]

HttpCache_process_response(response) ==
  IF ~enabled THEN [out |-> response, files |-> files]
  ELSE [out |-> response, files |-> store_response(store_key(response), response)]

(* ----------------------- DeduplicationMiddleware ----------------------- *)
\* Variant: the membership test never matches (the seen-set is not consulted).
is_duplicate_never(fp, seen) == FALSE

\* Whether process_request takes the `raise CancelRequest()` branch.
is_duplicate(fp, seen) == fp \in seen

\* Variant: the seen-set holds the last fingerprint only.
Dedup_process_request_forgetful(request, seen) ==
  LET fp == fingerprint(request)
  IN IF is_duplicate(fp, seen)
     THEN [out |-> CancelRequest, seen |-> seen]
     ELSE [out |-> request, seen |-> {fp}]

Dedup_process_request(request, seen) ==
  LET fp == fingerprint(request)
  IN IF is_duplicate(fp, seen)
     THEN [out |-> CancelRequest, seen |-> seen]
     ELSE [out |-> request, seen |-> seen \cup {fp}]

(* ------------- Middleware: the base class and user subclasses ---------- *)
\* What process_request of a Middleware does: the base class passes the request
\* on; a subclass may, per the docstring, raise CancelRequest, return a request
\* (here: the one it was given), or return a response.
CannedResponse(request) ==
  Response(request.url, 200, "headers", "canned", decode("canned"), request)

Middleware_process_request(request, choice) ==
  CASE choice = "cancel" -> CancelRequest
    [] choice = "respond" -> CannedResponse(request)
    [] OTHER -> request

\* The base class returns the response; a subclass may return a changed one, a
\* new Request for the page (the Request | Response of the signature), or
\* something that is neither.
Middleware_process_response(response, choice) ==
  CASE choice = "rewrite" -> [response EXCEPT !.status = 203]
    [] choice = "retry" -> Request(response.url, None)
    [] choice = "none" -> None
    [] OTHER -> response

Kinds == {"Middleware", "DeduplicationMiddleware", "HttpCacheMiddleware"}

\* "UserMiddleware" is a subclass put last in a Crawler's chain: it may cancel
\* a request, and may answer a response with a Request or with None.
RequestChoices(kind) ==
  CASE kind = "Middleware" -> {"pass", "cancel", "respond"}
    [] kind = "UserMiddleware" -> {"pass", "cancel"}
    [] OTHER -> {"code"}

ResponseChoices(kind) ==
  CASE kind = "Middleware" -> {"pass", "rewrite"}
    [] kind = "UserMiddleware" -> {"pass", "retry", "none"}
    [] OTHER -> {"code"}

\* middleware.process_request(ret) for the middleware at list position k.
process_request(k, request, choice) ==
  LET kind == middlewares[k]
  IN CASE kind = "DeduplicationMiddleware" ->
            Dedup_process_request(request, seen_requests[k])
       [] kind = "HttpCacheMiddleware" ->
            [out |-> HttpCache_process_request(request), seen |-> seen_requests[k]]
       [] OTHER ->
            [out |-> Middleware_process_request(request, choice),
             seen |-> seen_requests[k]]

\* middleware.process_response(ret) for the middleware at list position k.
process_response(k, response, choice) ==
  LET kind == middlewares[k]
  IN CASE kind = "HttpCacheMiddleware" -> HttpCache_process_response(response)
       [] OTHER ->
            [out |-> Middleware_process_response(response, choice), files |-> files]

(* ------------------------------ Downloader ----------------------------- *)
\* Downloader.fetch when Session.send answers with `body`: the Response that
\* _build_response makes. Its request is the PreparedRequest `req` of line 177.
fetch(request, body) ==
  LET prepared == PreparedRequest(request.url)
  IN Response(prepared.url, 200, "headers", body, decode(body), prepared)

FetchAnswers == Bodies \cup {"ConnectionError"}

(* --------------------------- MiddlewareChain --------------------------- *)
\* One hook or fetch of the running process invocation, for the history.
\* `entry` is what the cache directory held for arg when process_request ran.
Call(op, at, arg, out, entry) ==
  [op |-> op, at |-> at, arg |-> arg, out |-> out, entry |-> entry]

\* Variant: CancelRequest is caught and the visited middlewares are unwound.
after_process_request_unwinding(out, k, n) ==
  IF isinstance(out, "CancelRequest") THEN "backward"
  ELSE IF raised(out) THEN "raised"
  ELSE IF isinstance(out, "Response") THEN "downloader"
  ELSE IF k < n THEN "forward" ELSE "downloader"

\* Variant: the forward loop without its break.
after_process_request_no_break(out, k, n) ==
  IF raised(out) THEN "raised"
  ELSE IF k < n THEN "forward" ELSE "downloader"

\* Where process goes after process_request of position k (of n) gave `out`:
\* an exception leaves process, a Response breaks the loop, else the loop goes on.
after_process_request(out, k, n) ==
  IF raised(out) THEN "raised"
  ELSE IF isinstance(out, "Response") THEN "downloader"
  ELSE IF k < n THEN "forward" ELSE "downloader"

\* Variant: the second loop walks the whole middleware list.
response_order_all(visited, n) == [k \in 1..n |-> k]

\* Variant: the second loop walks backwards_chain back to front.
response_order_reversed(visited, n) ==
  [k \in 1..Len(visited) |-> visited[Len(visited) + 1 - k]]

\* The list the second loop walks (line 150): backwards_chain, front to back.
response_order(visited, n) == visited

\* Where process goes once the Downloader stage is over.
after_downloader(order) == IF Len(order) = 0 THEN "returned" ELSE "backward"

\* Lines 138-139: process(request) begins.
BeginProcess(request) ==
  /\ ret' = request
  /\ exc' = None
  /\ backwards_chain' = <<>>
  /\ i' = 1
  /\ j' = 1
  /\ calls' = <<>>
  /\ cpc' = IF Len(middlewares) = 0 THEN "downloader" ELSE "forward"

\* Lines 141-145: one iteration of the forward loop.
ForwardStep ==
  /\ cpc = "forward"
  /\ \E choice \in RequestChoices(middlewares[i]) :
       LET r == process_request(i, ret, choice)
           next == after_process_request(r.out, i, Len(middlewares))
       IN /\ backwards_chain' = Append(backwards_chain, i)
          /\ seen_requests' = [seen_requests EXCEPT ![i] = r.seen]
          /\ calls' = Append(calls, Call("process_request", i, ret, r.out,
                                       files[fingerprint(ret)].type))
          /\ cpc' = next
          /\ IF raised(r.out)
             THEN exc' = r.out /\ ret' = ret
             ELSE exc' = exc /\ ret' = r.out
          /\ i' = i + 1
          /\ j' = 1
  /\ UNCHANGED <<spider, files, corrupted, enabled, middlewares, requests, pc, req,
                 results, ncalls, runs, log>>

\* Lines 147-148: fetch when a Request is in hand; a transport failure leaves
\* process as an exception.
DownloaderStep ==
  /\ cpc = "downloader"
  /\ IF isinstance(ret, "Request")
     THEN \E answer \in FetchAnswers :
            /\ log' = IF pc = "process"
                      THEN [log EXCEPT ![Len(log)].fetched = Append(@, ret)]
                      ELSE log
            /\ IF answer = "ConnectionError"
               THEN /\ exc' = ConnectionError
                    /\ ret' = ret
                    /\ cpc' = "raised"
                    /\ calls' = Append(calls, Call("fetch", 0, ret, ConnectionError, "n/a"))
               ELSE /\ exc' = exc
                    /\ ret' = fetch(ret, answer)
                    /\ cpc' = after_downloader(response_order(backwards_chain,
                                                              Len(middlewares)))
                    /\ calls' = Append(calls, Call("fetch", 0, ret, fetch(ret, answer),
                                                    "n/a"))
     ELSE /\ cpc' = after_downloader(response_order(backwards_chain, Len(middlewares)))
          /\ UNCHANGED <<ret, exc, calls, log>>
  /\ UNCHANGED <<spider, files, corrupted, enabled, middlewares, seen_requests,
                 requests, pc, req, results, backwards_chain, i, j, ncalls, runs>>

\* Lines 150-153: one iteration of the response loop; after the last, return ret.
BackwardStep ==
  /\ cpc = "backward"
  /\ LET order == response_order(backwards_chain, Len(middlewares))
         k == order[j]
     IN \E choice \in ResponseChoices(middlewares[k]) :
          LET r == process_response(k, ret, choice)
          IN /\ ret' = r.out
             /\ files' = r.files
             /\ calls' = Append(calls, Call("process_response", k, ret, r.out, "n/a"))
             /\ j' = j + 1
             /\ cpc' = IF j < Len(order) THEN "backward" ELSE "returned"
  /\ UNCHANGED <<spider, corrupted, enabled, middlewares, seen_requests, requests,
                 pc, req, results, exc, backwards_chain, i, ncalls, runs, log>>

(* ------------------------------ environment ---------------------------- *)
\* A cache file is damaged on disk (a truncated write, a disk fault). The
\* damage shows only at the next read, so it is taken between process
\* invocations and between crawls.
CorruptFile ==
  /\ corrupted < MaxCorrupt
  /\ pc \in {"none", "done", "crashed"}
  /\ cpc \in {"idle", "returned", "raised"}
  /\ \E fp \in Fingerprints :
       /\ files[fp].type = "file"
       /\ files' = [files EXCEPT ![fp] = Corrupt]
  /\ corrupted' = corrupted + 1
  /\ UNCHANGED <<spider, enabled, middlewares, seen_requests, requests, pc, req,
                 results, cpc, ret, exc, backwards_chain, i, j, calls, ncalls, runs,
                 log>>

(* -------------------------------- Spider ------------------------------- *)
Method(name) == [type |-> "method", name |-> name]
Item(v) == [type |-> "str", value |-> v]
List(vals) == [type |-> "list", items |-> vals]

Spiders == {"two_pages", "same_page_twice", "cycle", "root"}

start_urls(s) ==
  CASE s = "two_pages" -> <<UrlA>>
    [] s = "same_page_twice" -> <<UrlA, UrlAUpper>>
    [] s = "cycle" -> <<UrlA>>
    [] OTHER -> <<UrlRoot>>

\* Spider.start_requests: one Request per start URL, no callback assigned.
start_requests(s) ==
  [k \in 1..Len(start_urls(s)) |-> Request(start_urls(s)[k], None)]

\* What the spider's callback `name` returns for `response`.
callback(s, name, response) ==
  CASE s = "two_pages" /\ response.url = UrlA ->
         List(<<Request(UrlB, None), Item("item1")>>)
    [] s = "two_pages" /\ response.url = UrlB -> List(<<Item("item2")>>)
    [] s = "same_page_twice" -> Item("item1")
    [] s = "cycle" /\ name = "parse" /\ response.url = UrlA ->
         List(<<Request(UrlB, Method("detail")), Item("item1"),
                Request(UrlAUpper, None)>>)
    [] s = "cycle" /\ name = "detail" ->
         List(<<Request(UrlA, None), Item("item2"), Item("item3")>>)
    [] s = "root" /\ response.url = UrlRootSlash -> List(<<Item("item1")>>)
    [] s = "root" -> Item("item2")
    [] OTHER -> None

(* -------------------------------- Crawler ------------------------------ *)
\* Crawler.to_iterable: a str is one value, an iterable is itself, else nothing.
to_iterable(result) ==
  CASE result.type = "str" -> <<result>>
    [] result.type = "list" -> result.items
    [] OTHER -> <<>>

\* Lines 252-253: a request without callback gets the spider's parse.
with_callback(request) ==
  IF request.callback.type = "NoneType"
  THEN [request EXCEPT !.callback = Method("parse")]
  ELSE request

\* Variant: no except clause: every exception out of process leaves crawl.
on_exception_propagate(e) == "crashed"

\* Lines 255-258: CancelRequest is caught and the loop continues; any other
\* exception leaves the generator.
on_exception(e) == IF isinstance(e, "CancelRequest") THEN "loop" ELSE "crashed"

\* Variant: a Request coming out of the chain is dropped like an anomaly.
on_result_no_requeue(v) ==
  IF ~isinstance(v, "Response") THEN "skip" ELSE "callback"

\* Lines 260-268: what crawl does with the value process returned.
on_result(v) ==
  IF isinstance(v, "Request") THEN "requeue"
  ELSE IF ~isinstance(v, "Response") THEN "skip"
  ELSE "callback"

\* Variant: every callback value is put back on the queue.
requeues_always(result) == TRUE

\* Line 272: a callback value that is a Request goes back to the Scheduler.
requeues(result) == isinstance(result, "Request")

\* Variant: one seen-set shared by all DeduplicationMiddleware instances (a
\* class attribute): a new instance finds what earlier ones recorded.
new_seen_requests_shared(previous, n) ==
  [k \in 1..n |-> IF Len(previous) = 0 THEN {} ELSE previous[1]]

\* Line 120 (run from Crawler.__init__): each of the n middlewares of the new
\* chain starts with an empty seen-set, whatever earlier instances held.
new_seen_requests(previous, n) == [k \in 1..n |-> {}]

\* The history kept for one Crawler instance. `mark` is where enqueued and
\* output stood when the running callback was invoked.
NewLog(e) ==
  [enabled |-> e, enqueued |-> <<>>, dispatched |-> <<>>, runof |-> <<>>,
   fetched |-> <<>>, outcomes |-> <<>>, received |-> <<>>, invoked |-> <<>>,
   mark |-> [enq |-> 0, out |-> 0], output |-> <<>>, ended |-> "no"]

Cur == log[Len(log)]

\* How process ended for the request just dispatched, read off its history.
Outcome ==
  [end |-> IF cpc = "raised" THEN exc.type ELSE ret.type,
   fetched |-> \E k \in 1..Len(calls) : calls[k].op = "fetch",
   passed |-> \E k \in 1..Len(calls) :
                /\ calls[k].op = "process_request"
                /\ calls[k].at = Len(middlewares)
                /\ isinstance(calls[k].out, "Request")]

\* Lines 247-248: add_request for each start request, in order.
RECURSIVE add_all(_, _)
add_all(q, rs) ==
  IF Len(rs) = 0 THEN q ELSE add_all(add_request(q, Head(rs)), Tail(rs))

\* Variant: crawl as a plain function: the call itself enqueues the seeds.
on_crawl_call_eager(q, seeds) == add_all(q, seeds)

\* Line 243: crawl holds a yield, so calling it makes a generator and runs no
\* line of its body: the Scheduler queue is as it was.
on_crawl_call(q, seeds) == q

\* Crawler.__init__: a Scheduler, and a chain of fresh Dedup and HttpCache. A new
\* Crawler is made at the start, after a crawl has ended, or when the consumer
\* has stopped pulling from the previous one.
Construct ==
  /\ pc \in {"none", "yielded", "done", "crashed"}
  /\ Len(log) < MaxRuns
  /\ runs < MaxRuns
  /\ \E e \in BOOLEAN :
       /\ enabled' = e
       /\ log' = Append(log, NewLog(e))
  /\ requests' = <<>>
  /\ middlewares' = <<"DeduplicationMiddleware", "HttpCacheMiddleware">>
  /\ seen_requests' = new_seen_requests(seen_requests, 2)
  /\ pc' = "constructed"
  /\ req' = None
  /\ results' = <<>>
  /\ cpc' = "idle"
  /\ UNCHANGED <<spider, files, corrupted, ret, exc, backwards_chain, i, j, calls,
                 ncalls, runs>>

\* crawl() is called: a generator is made, none of its code has run.
Crawl ==
  /\ pc \in {"constructed", "done", "crashed"}
  /\ runs < MaxRuns
  /\ runs' = runs + 1
  /\ pc' = "created"
  /\ requests' = on_crawl_call(requests, start_requests(spider))
  /\ log' = [log EXCEPT ![Len(log)].ended = "no"]
  /\ UNCHANGED <<spider, files, corrupted, enabled, middlewares, seen_requests,
                 req, results, cpc, ret, exc, backwards_chain, i, j, calls, ncalls>>

\* The consumer's first next(): lines 245-248 enqueue the start requests.
Start ==
  /\ pc = "created"
  /\ requests' = add_all(requests, start_requests(spider))
  /\ log' = [log EXCEPT ![Len(log)].enqueued = @ \o start_requests(spider)]
  /\ pc' = "loop"
  /\ UNCHANGED <<spider, files, corrupted, enabled, middlewares, seen_requests, req,
                 results, cpc, ret, exc, backwards_chain, i, j, calls, ncalls, runs>>

\* Lines 250-256: the loop test, the pop, the default callback, process(req).
LoopStep ==
  /\ pc = "loop"
  /\ IF has_next(requests)
     THEN LET popped == next_request(requests)
              r == with_callback(popped.value)
          IN /\ requests' = popped.queue
             /\ req' = r
             /\ log' = [log EXCEPT ![Len(log)].dispatched = Append(@, r),
                                   ![Len(log)].runof = Append(@, runs)]
             /\ BeginProcess(r)
             /\ pc' = "process"
     ELSE /\ pc' = "done"
          /\ log' = [log EXCEPT ![Len(log)].ended = "done"]
          /\ UNCHANGED <<requests, req, cpc, ret, exc, backwards_chain, i, j, calls>>
  /\ UNCHANGED <<spider, files, corrupted, enabled, middlewares, seen_requests,
                 results, ncalls, runs>>

\* Lines 257-268: what crawl does with the outcome of process(req).
AfterProcess ==
  /\ pc = "process"
  /\ cpc \in {"returned", "raised"}
  /\ cpc' = "idle"
  /\ IF cpc = "raised"
     THEN /\ IF on_exception(exc) = "loop"
             THEN /\ pc' = "loop"
                  /\ log' = [log EXCEPT ![Len(log)].outcomes = Append(@, Outcome)]
             ELSE /\ pc' = "crashed"
                  /\ log' = [log EXCEPT ![Len(log)].outcomes = Append(@, Outcome),
                                        ![Len(log)].ended = exc.type]
          /\ UNCHANGED <<requests, results>>
     ELSE IF on_result(ret) = "requeue"
     THEN /\ requests' = add_request(requests, ret)
          /\ log' = [log EXCEPT ![Len(log)].outcomes = Append(@, Outcome),
                                ![Len(log)].enqueued = Append(@, ret)]
          /\ pc' = "loop"
          /\ UNCHANGED results
     ELSE IF on_result(ret) = "skip"
     THEN /\ pc' = "loop"
          /\ log' = [log EXCEPT ![Len(log)].outcomes = Append(@, Outcome)]
          /\ UNCHANGED <<requests, results>>
     ELSE /\ results' = to_iterable(callback(spider, req.callback.name, ret))
          /\ log' = [log EXCEPT ![Len(log)].outcomes = Append(@, Outcome),
                                ![Len(log)].received = Append(@, ret),
                                ![Len(log)].invoked =
                                   Append(@, [at |-> Len(Cur.dispatched),
                                              name |-> req.callback.name]),
                                ![Len(log)].mark =
                                   [enq |-> Len(Cur.enqueued),
                                    out |-> Len(Cur.output)]]
          /\ pc' = "results"
          /\ UNCHANGED requests
  /\ UNCHANGED <<spider, files, corrupted, enabled, middlewares, seen_requests, req,
                 ret, exc, backwards_chain, i, j, calls, ncalls, runs>>

\* Lines 271-276: the next callback value: a Request is enqueued, anything else
\* is yielded; with no value left the loop goes on.
ResultStep ==
  /\ pc = "results"
  /\ IF Len(results) = 0
     THEN /\ pc' = "loop"
          /\ UNCHANGED <<requests, results, log>>
     ELSE LET result == Head(results)
          IN /\ results' = Tail(results)
             /\ IF requeues(result)
                THEN /\ requests' = add_request(requests, result)
                     /\ log' = [log EXCEPT ![Len(log)].enqueued = Append(@, result)]
                     /\ pc' = "results"
                ELSE /\ log' = [log EXCEPT ![Len(log)].output =
                                  Append(@, [item |-> result.value,
                                             by |-> Len(Cur.dispatched)])]
                     /\ pc' = "yielded"
                     /\ UNCHANGED requests
  /\ UNCHANGED <<spider, files, corrupted, enabled, middlewares, seen_requests, req,
                 cpc, ret, exc, backwards_chain, i, j, calls, ncalls, runs>>

\* The consumer asks for the next item: the generator resumes after the yield.
Pull ==
  /\ pc = "yielded"
  /\ pc' = "results"
  /\ UNCHANGED <<spider, files, corrupted, enabled, middlewares, seen_requests,
                 requests, req, results, cpc, ret, exc, backwards_chain, i, j, calls,
                 ncalls, runs, log>>

(* ----------------------------- specifications -------------------------- *)
NoFiles == [fp \in Fingerprints |-> Missing]

Init ==
  /\ spider \in Spiders
  /\ files = NoFiles
  /\ corrupted = 0
  /\ enabled = FALSE
  /\ middlewares = <<>>
  /\ seen_requests = <<>>
  /\ requests = <<>>
  /\ pc = "none"
  /\ req = None
  /\ results = <<>>
  /\ cpc = "idle"
  /\ ret = None
  /\ exc = None
  /\ backwards_chain = <<>>
  /\ i = 1
  /\ j = 1
  /\ calls = <<>>
  /\ ncalls = 0
  /\ runs = 0
  /\ log = <<>>

Next ==
  \/ Construct
  \/ Crawl
  \/ Start
  \/ LoopStep
  \/ ForwardStep
  \/ DownloaderStep
  \/ BackwardStep
  \/ AfterProcess
  \/ ResultStep
  \/ Pull
  \/ CorruptFile

Spec == Init /\ [][Next]_vars

\* The middleware lists and requests MiddlewareChain.process is exercised on.
MiddlewareLists == UNION {[1..n -> Kinds] : n \in 0..MaxChain}

ChainRequests == {Request(UrlA, None), Request(UrlRoot, None)}

ChainInit ==
  /\ spider = "none"
  /\ files = NoFiles
  /\ corrupted = 0
  /\ enabled \in BOOLEAN
  /\ middlewares \in MiddlewareLists
  /\ seen_requests = [k \in 1..Len(middlewares) |-> {}]
  /\ requests = <<>>
  /\ pc = "none"
  /\ req = None
  /\ results = <<>>
  /\ cpc = "idle"
  /\ ret = None
  /\ exc = None
  /\ backwards_chain = <<>>
  /\ i = 1
  /\ j = 1
  /\ calls = <<>>
  /\ ncalls = 0
  /\ runs = 0
  /\ log = <<>>

\* A caller invokes MiddlewareChain.process(request).
ChainCall ==
  /\ pc = "none"
  /\ cpc \in {"idle", "returned", "raised"}
  /\ ncalls < MaxCalls
  /\ \E r \in ChainRequests : BeginProcess(r)
  /\ ncalls' = ncalls + 1
  /\ UNCHANGED <<spider, files, corrupted, enabled, middlewares, seen_requests,
                 requests, pc, req, results, runs, log>>

ChainNext ==
  \/ ChainCall
  \/ ForwardStep
  \/ DownloaderStep
  \/ BackwardStep
  \/ CorruptFile

ChainSpec == ChainInit /\ [][ChainNext]_vars

(* ------------------- reading the history of an invocation -------------- *)
IsOp(op) == {k \in 1..Len(calls) : calls[k].op = op}

IsCall(c, op) == c.op = op
IsRequestCall(c) == IsCall(c, "process_request")
IsFetchCall(c) == IsCall(c, "fetch")
IsResponseCall(c) == IsCall(c, "process_response")

RequestCalls == SelectSeq(calls, IsRequestCall)
FetchCalls == SelectSeq(calls, IsFetchCall)
ResponseCalls == SelectSeq(calls, IsResponseCall)

\* Positions whose process_request returned a Response in this invocation.
ShortCircuits ==
  {calls[k].at : k \in {m \in IsOp("process_request") :
                          isinstance(calls[m].out, "Response")}}

(* ------------------------------- claims -------------------------------- *)

\* C2: when the middleware at position p raises CancelRequest from
\* process_request, that call is the last thing the invocation does: nothing ran
\* before it but process_request of earlier positions (no process_response, no
\* fetch), nothing runs after it, and process ends with the cancellation
\* instead of a return value.
C2_CancelAbortsChain ==
  \A k \in 1..Len(calls) :
    isinstance(calls[k].out, "CancelRequest") =>
      /\ calls[k].op = "process_request"
      /\ k = Len(calls)
      /\ \A m \in 1..(k - 1) :
           calls[m].op = "process_request" /\ calls[m].at < calls[k].at
      /\ cpc = "raised"
      /\ exc = CancelRequest

\* C2 witness: a cancellation at a position after the first.
C2_Witness ==
  \E k \in 1..Len(calls) :
    /\ isinstance(calls[k].out, "CancelRequest")
    /\ calls[k].at >= 2
    /\ cpc = "raised"

\* C3: once a process_request has returned a Response no further
\* process_request runs and the Downloader is never invoked in that invocation;
\* when the forward walk ends with a Request in hand the Downloader is invoked
\* exactly once; it is never invoked twice.
C3_ShortCircuitOrFetch ==
  /\ \A k \in IsOp("process_request") :
       isinstance(calls[k].out, "Response") =>
         /\ \A m \in (k + 1)..Len(calls) : calls[m].op = "process_response"
         /\ Len(FetchCalls) = 0
         /\ cpc # "forward"
  /\ Len(FetchCalls) <= 1
  /\ (cpc \in {"backward", "returned"} /\ ShortCircuits = {}) => Len(FetchCalls) = 1
  /\ (cpc = "downloader" /\ isinstance(ret, "Request")) => ShortCircuits = {}

\* C3 witness: an invocation has returned after a short circuit that left
\* later middlewares unvisited.
C3_Witness ==
  /\ cpc = "returned"
  /\ \E p \in ShortCircuits : p < Len(middlewares)

\* C4 as stated: after a short circuit at position p, every middleware after p
\* still has process_response invoked in that invocation.
C4_Original ==
  cpc = "returned" =>
    \A p \in ShortCircuits :
      \A q \in (p + 1)..Len(middlewares) :
        \E k \in IsOp("process_response") : calls[k].at = q

\* C4 amended: after a short circuit at position p, every middleware after p
\* is skipped for process_request and for process_response alike.
C4_LaterMiddlewaresSkipped ==
  \A p \in ShortCircuits :
    \A k \in 1..Len(calls) :
      calls[k].op \in {"process_request", "process_response"} => calls[k].at <= p

\* C4 witness: a returned invocation short-circuited before the end of the list.
C4_Witness ==
  /\ cpc = "returned"
  /\ \E p \in ShortCircuits : p < Len(middlewares)
  /\ Len(ResponseCalls) >= 1

\* C5: in an invocation that returns, process_response runs once on each
\* middleware whose process_request ran and on no other, in the same order as
\* the request phase and after it; the first call receives the fetched or
\* short-circuiting Response, each later call receives what the previous one
\* returned, and process returns what the last one returned.
C5_ResponsePhase ==
  cpc = "returned" =>
    /\ Len(ResponseCalls) = Len(RequestCalls)
    /\ \A k \in 1..Len(RequestCalls) :
         /\ RequestCalls[k].at = k
         /\ ResponseCalls[k].at = k
    /\ \A k \in IsOp("process_response") :
         \A m \in (k + 1)..Len(calls) : calls[m].op = "process_response"
    /\ \A k \in 2..Len(calls) :
         calls[k].op = "process_response" => calls[k].arg = calls[k - 1].out
    /\ Len(calls) > 0 => ret = calls[Len(calls)].out

\* C5 witness: a returned invocation with two process_response calls of which
\* one changed the Response.
C5_Witness ==
  /\ cpc = "returned"
  /\ Len(ResponseCalls) >= 2
  /\ \E k \in 1..Len(ResponseCalls) : ResponseCalls[k].out # ResponseCalls[k].arg

(* --------------------- reading a Crawler's history ---------------------- *)
\* Two requests share a fingerprint: the same lower-cased URL.
SameKey(r1, r2) == lower(r1.url) = lower(r2.url)

\* How many requests of `rs` share the key of `r`.
CountKey(rs, r) == Cardinality({k \in 1..Len(rs) : SameKey(rs[k], r)})

\* Same url, status, headers, body and text.
Equivalent(a, b) ==
  /\ a.url = b.url
  /\ a.status = b.status
  /\ a.headers = b.headers
  /\ a.body = b.body
  /\ a.text = b.text

UrlsOf(rs) == [k \in 1..Len(rs) |-> rs[k].url]
ItemsOf(out) == [k \in 1..Len(out) |-> out[k].item]

\* C1 as stated: when a crawl has run to completion, every fingerprint that was
\* submitted to the Crawler reached Downloader.fetch exactly once.
C1_Original ==
  \A c \in 1..Len(log) :
    log[c].ended = "done" =>
      \A k \in 1..Len(log[c].enqueued) :
        CountKey(log[c].fetched, log[c].enqueued[k]) = 1

\* C1 amended: of the requests sharing a fingerprint that one Crawler
\* dispatches, at most one reaches Downloader.fetch: only the first can, and it
\* does exactly when the cache middleware passes it on as a Request (no stored
\* entry answers it); every later one ends in CancelRequest, which the Crawler
\* absorbs, without reaching the Downloader. With the cache disabled a crawl
\* run to completion has fetched every submitted fingerprint exactly once.
C1_AtMostOneFetch ==
  \A c \in 1..Len(log) :
    /\ \A k \in 1..Len(log[c].fetched) :
         CountKey(log[c].fetched, log[c].fetched[k]) = 1
    /\ \A k \in 1..Len(log[c].outcomes) :
         LET first == \A m \in 1..(k - 1) :
                        ~SameKey(log[c].dispatched[m], log[c].dispatched[k])
             o == log[c].outcomes[k]
         IN IF first
            THEN o.fetched <=> o.passed
            ELSE o.end = "CancelRequest" /\ ~o.fetched
    /\ (log[c].ended = "done" /\ ~log[c].enabled) =>
         \A k \in 1..Len(log[c].enqueued) :
           CountKey(log[c].fetched, log[c].enqueued[k]) = 1

\* C1 witness: a Crawler has dispatched two requests with one fingerprint, the
\* first was fetched and the second cancelled, and the crawl ran to its end.
C1_Witness ==
  /\ pc = "done"
  /\ \E k, m \in 1..Len(Cur.outcomes) :
       /\ k < m
       /\ SameKey(Cur.dispatched[k], Cur.dispatched[m])
       /\ Cur.dispatched[k].url # Cur.dispatched[m].url
       /\ Cur.outcomes[k].fetched
       /\ Cur.outcomes[m].end = "CancelRequest"

\* C6: a Crawler dispatches requests in the order they were enqueued, items
\* come out in the order their producing requests were dispatched, and the
\* two-page spider (a yields Request(b) and "item1", b yields "item2"), crawled
\* to completion with default settings and a Downloader that answers, gives
\* exactly ["item1", "item2"] from exactly the fetches a, b.
C6_FifoOrder ==
  \A c \in 1..Len(log) :
    /\ Len(log[c].dispatched) <= Len(log[c].enqueued)
    /\ \A k \in 1..Len(log[c].dispatched) :
         log[c].dispatched[k] = with_callback(log[c].enqueued[k])
    /\ \A k, m \in 1..Len(log[c].output) :
         k < m => log[c].output[k].by <= log[c].output[m].by
    /\ ( /\ spider = "two_pages"
         /\ log[c].ended = "done"
         /\ ~log[c].enabled
         /\ \A k \in 1..Len(log[c].outcomes) :
              log[c].outcomes[k].end # "ConnectionError" )
       => /\ ItemsOf(log[c].output) = <<"item1", "item2">>
          /\ UrlsOf(log[c].fetched) = <<UrlA, UrlB>>

\* C6 witness: the two-page crawl has run to completion with default settings
\* and both items are out.
C6_Witness ==
  /\ spider = "two_pages"
  /\ pc = "done"
  /\ ~Cur.enabled
  /\ Len(Cur.output) = 2
  /\ Len(Cur.dispatched) = 2

\* C7 as stated: after a completed cold-cache crawl that fetched once, a fresh
\* Crawler over the same seed and cache directory completes without invoking
\* the Downloader, its callback receiving Responses equivalent to the first
\* run's.
C7_WarmRunFetchesNothing ==
  ( /\ Len(log) = 2
    /\ corrupted = 0
    /\ log[1].enabled /\ log[1].ended = "done" /\ Len(log[1].fetched) = 1
    /\ log[2].enabled /\ log[2].ended = "done" )
  => /\ log[2].fetched = <<>>
     /\ Len(log[2].received) = Len(log[1].received)
     /\ \A k \in 1..Len(log[2].received) :
          Equivalent(log[2].received[k], log[1].received[k])

\* C8 as stated: right after HttpCacheMiddleware.process_response has stored the
\* Response fetched for request r (cache enabled, files intact),
\* process_request on r is a hit returning that very Response: the store key
\* and the lookup key are the same fingerprint.
C8_StoreThenHit ==
  ( /\ corrupted = 0
    /\ enabled
    /\ Len(calls) > 0
    /\ calls[Len(calls)].op = "process_response"
    /\ middlewares[calls[Len(calls)].at] = "HttpCacheMiddleware"
    /\ Len(FetchCalls) = 1 )
  => /\ fingerprint(store_key(calls[Len(calls)].arg)) = fingerprint(FetchCalls[1].arg)
     /\ HttpCache_process_request(FetchCalls[1].arg) = calls[Len(calls)].out

\* C9 as stated: with the cache enabled, process_request of HttpCacheMiddleware
\* on a request whose entry is missing or unreadable returns the request
\* unchanged and raises nothing.
C9_UnreadableIsMiss ==
  \A k \in IsOp("process_request") :
    ( /\ enabled
      /\ middlewares[calls[k].at] = "HttpCacheMiddleware"
      /\ calls[k].entry \in {"missing", "corrupt"} )
    => calls[k].out = calls[k].arg

\* C10 as stated: the generator ends only when the Scheduler queue is empty
\* and no callback value is pending, never while a request is still queued.
C10_EndsOnlyWhenDrained ==
  pc \in {"done", "crashed"} => Len(requests) = 0 /\ Len(results) = 0

(* ------------------------ the Scheduler on its own ---------------------- *)
\* A Scheduler driven by arbitrary calls. `calls` holds the last call (its
\* argument, what it returned, the queue before it) and `log` what was added
\* and what next_request has handed out.
SchedulerRequests == {Request(UrlA, None), Request(UrlB, None)}

Bool(b) == [type |-> "bool", value |-> b]

SchedulerInit ==
  /\ spider = "none"
  /\ files = NoFiles
  /\ corrupted = 0
  /\ enabled = FALSE
  /\ middlewares = <<>>
  /\ seen_requests = <<>>
  /\ requests = <<>>
  /\ pc = "scheduler"
  /\ req = None
  /\ results = <<>>
  /\ cpc = "idle"
  /\ ret = None
  /\ exc = None
  /\ backwards_chain = <<>>
  /\ i = 1
  /\ j = 1
  /\ calls = <<>>
  /\ ncalls = 0
  /\ runs = 0
  /\ log = <<[added |-> <<>>, returned |-> <<>>]>>

SchedulerCall(op, arg, out) ==
  <<[op |-> op, arg |-> arg, out |-> out, before |-> requests]>>

SchedulerAdd ==
  /\ pc = "scheduler"
  /\ ncalls < MaxAdds
  /\ \E r \in SchedulerRequests :
       /\ requests' = add_request(requests, r)
       /\ calls' = SchedulerCall("add_request", r, None)
       /\ log' = [log EXCEPT ![1].added = Append(@, r)]
  /\ ncalls' = ncalls + 1
  /\ UNCHANGED <<spider, files, corrupted, enabled, middlewares, seen_requests, pc,
                 req, results, cpc, ret, exc, backwards_chain, i, j, runs>>

SchedulerNextRequest ==
  /\ pc = "scheduler"
  /\ LET popped == next_request(requests)
     IN /\ requests' = popped.queue
        /\ calls' = SchedulerCall("next_request", None, popped.value)
        /\ log' = IF isinstance(popped.value, "NoneType") THEN log
                  ELSE [log EXCEPT ![1].returned = Append(@, popped.value)]
  /\ UNCHANGED <<spider, files, corrupted, enabled, middlewares, seen_requests, pc,
                 req, results, cpc, ret, exc, backwards_chain, i, j, ncalls, runs>>

SchedulerHasNext ==
  /\ pc = "scheduler"
  /\ calls' = SchedulerCall("has_next", None, Bool(has_next(requests)))
  /\ UNCHANGED <<spider, files, corrupted, enabled, middlewares, seen_requests,
                 requests, pc, req, results, cpc, ret, exc, backwards_chain, i, j,
                 ncalls, runs, log>>

SchedulerNext ==
  \/ SchedulerAdd
  \/ SchedulerNextRequest
  \/ SchedulerHasNext

SchedulerSpec == SchedulerInit /\ [][SchedulerNext]_vars

\* C11: the Scheduler is a FIFO queue. After any sequence of calls the queue
\* is what was added minus what next_request has handed out, and what was
\* handed out is the oldest part of what was added, in order. add_request(r)
\* puts r at the tail and keeps the rest; next_request on a non-empty queue
\* returns the head and leaves the rest; on an empty queue it returns None and
\* leaves the queue empty; has_next is true exactly when the queue is
\* non-empty and leaves the queue as it was.
C11_SchedulerFifo ==
  LET added == log[1].added
      returned == log[1].returned
  IN /\ Len(returned) <= Len(added)
     /\ returned = SubSeq(added, 1, Len(returned))
     /\ requests = SubSeq(added, Len(returned) + 1, Len(added))
     /\ \A k \in 1..Len(calls) :
          LET c == calls[k]
          IN /\ c.op = "add_request" =>
                  /\ Len(requests) = Len(c.before) + 1
                  /\ requests[Len(requests)] = c.arg
                  /\ SubSeq(requests, 1, Len(c.before)) = c.before
             /\ (c.op = "next_request" /\ Len(c.before) > 0) =>
                  /\ c.out = c.before[1]
                  /\ requests = SubSeq(c.before, 2, Len(c.before))
             /\ (c.op = "next_request" /\ Len(c.before) = 0) =>
                  /\ c.out = None
                  /\ requests = <<>>
             /\ c.op = "has_next" =>
                  /\ c.out.value = (Len(c.before) > 0)
                  /\ requests = c.before

\* C11 witness: two different requests were added and next_request has just
\* returned the older one, leaving the newer one queued.
C11_Witness ==
  /\ pc = "scheduler"
  /\ Len(log[1].added) >= 2
  /\ log[1].added[1] # log[1].added[2]
  /\ Len(calls) = 1
  /\ calls[1].op = "next_request"
  /\ calls[1].out = log[1].added[1]
  /\ Len(requests) >= 1

(* ---------------------- claims about Crawler.crawl ---------------------- *)
\* The dispatches of instance c that process ended for with outcome `end`.
EndedWith(c, end) ==
  {k \in 1..Len(log[c].outcomes) : log[c].outcomes[k].end = end}

\* Whether the callback was invoked for, or an item came out of, dispatch k of
\* instance c.
Handled(c, k) ==
  \/ \E m \in 1..Len(log[c].invoked) : log[c].invoked[m].at = k
  \/ \E m \in 1..Len(log[c].output) : log[c].output[m].by = k

\* C12: when process raises CancelRequest for the popped request, crawl drops
\* the request: the step that handles the exception goes back to the loop
\* test, leaves the Scheduler queue as it is (nothing re-enqueued), invokes no
\* callback, emits no item and does not end the generator; no callback
\* invocation and no item is ever attributed to a cancelled dispatch, and no
\* generator ends with CancelRequest.
C12_CancelDropsRequest ==
  /\ [](\A c \in 1..Len(log) :
          /\ log[c].ended # "CancelRequest"
          /\ \A k \in EndedWith(c, "CancelRequest") : ~Handled(c, k))
  /\ [][(pc = "process" /\ cpc = "raised" /\ isinstance(exc, "CancelRequest")) =>
          /\ pc' = "loop"
          /\ requests' = requests
          /\ results' = results
          /\ Len(log') = Len(log)
          /\ Cur'.enqueued = Cur.enqueued
          /\ Cur'.invoked = Cur.invoked
          /\ Cur'.received = Cur.received
          /\ Cur'.output = Cur.output
          /\ Cur'.ended = Cur.ended]_vars

\* C12 witness: a request was cancelled while another was queued behind it,
\* and that one has been dispatched since.
C12_Witness ==
  /\ Len(log) > 0
  /\ \E k \in EndedWith(Len(log), "CancelRequest") : Len(Cur.dispatched) > k

(* ------------- a Crawler whose chain ends with a user middleware -------- *)
\* The chain of Crawler.__init__ with a Middleware subclass added after the
\* two built-in ones, as a program does by assigning crawler._middleware. The
\* subclass may cancel a request and may answer a response with a Request or
\* with None, which the built-in chain never does.
ConstructWithMiddleware ==
  /\ pc \in {"none", "yielded", "done", "crashed"}
  /\ Len(log) < MaxRuns
  /\ runs < MaxRuns
  /\ \E e \in BOOLEAN :
       /\ enabled' = e
       /\ log' = Append(log, NewLog(e))
  /\ requests' = <<>>
  /\ middlewares' = <<"DeduplicationMiddleware", "HttpCacheMiddleware",
                      "UserMiddleware">>
  /\ seen_requests' = new_seen_requests(seen_requests, 3)
  /\ pc' = "constructed"
  /\ req' = None
  /\ results' = <<>>
  /\ cpc' = "idle"
  /\ UNCHANGED <<spider, files, corrupted, ret, exc, backwards_chain, i, j, calls,
                 ncalls, runs>>

MiddlewareNext ==
  \/ ConstructWithMiddleware
  \/ Crawl
  \/ Start
  \/ LoopStep
  \/ ForwardStep
  \/ DownloaderStep
  \/ BackwardStep
  \/ AfterProcess
  \/ ResultStep
  \/ Pull

MiddlewareSpec == Init /\ [][MiddlewareNext]_vars

\* C13: when process returns a Request for the popped request, crawl appends
\* that Request to the tail of the Scheduler queue and goes back to the loop
\* test: no callback is invoked and no item is emitted for that dispatch, and
\* the generator does not end.
C13_RequestResultRequeued ==
  /\ [](\A c \in 1..Len(log) : \A k \in EndedWith(c, "Request") : ~Handled(c, k))
  /\ [][(pc = "process" /\ cpc = "returned" /\ isinstance(ret, "Request")) =>
          /\ pc' = "loop"
          /\ requests' = Append(requests, ret)
          /\ results' = results
          /\ Len(log') = Len(log)
          /\ Cur'.enqueued = Append(Cur.enqueued, ret)
          /\ Cur'.invoked = Cur.invoked
          /\ Cur'.received = Cur.received
          /\ Cur'.output = Cur.output
          /\ Cur'.ended = Cur.ended]_vars

\* C13 witness: process has just returned a Request while another request
\* was queued; the returned Request now stands at the tail, behind it.
C13_Witness ==
  /\ Len(log) > 0
  /\ pc = "loop"
  /\ Len(Cur.dispatched) \in EndedWith(Len(log), "Request")
  /\ Len(requests) >= 2
  /\ requests[Len(requests)] = ret
  /\ ~Handled(Len(log), Len(Cur.dispatched))

\* C14 as stated: a transport failure of Downloader.fetch aborts only the
\* request being processed: no callback invocation and no item for that
\* dispatch, and the generator does not end with the failure (requests still
\* queued are processed afterwards).
C14_TransportFailureSkipsRequest ==
  \A c \in 1..Len(log) :
    \A k \in EndedWith(c, "ConnectionError") :
      /\ ~Handled(c, k)
      /\ log[c].ended # "ConnectionError"
      /\ (c = Len(log) /\ k = Len(log[c].dispatched) /\ Len(requests) > 0) =>
           pc # "crashed"

\* C15 as stated: every crawl run starts with an empty seen-set, so a request
\* is cancelled only because of a request with the same fingerprint dispatched
\* earlier in the same crawl run, never because of an earlier crawl() call.
C15_Original ==
  \A c \in 1..Len(log) :
    \A k \in EndedWith(c, "CancelRequest") :
      \E m \in 1..(k - 1) :
        /\ SameKey(log[c].dispatched[m], log[c].dispatched[k])
        /\ log[c].runof[m] = log[c].runof[k]

\* C15 amended: the seen-set is made with the Crawler instance. A newly
\* constructed Crawler has empty seen-sets whatever earlier instances
\* recorded, and a request is cancelled only when the same instance
\* dispatched a request with the same fingerprint before (in this or in an
\* earlier crawl() call of that instance), never because of another instance.
C15_SeenSetPerInstance ==
  /\ pc = "constructed" =>
       \A k \in 1..Len(seen_requests) : seen_requests[k] = {}
  /\ \A c \in 1..Len(log) :
       \A k \in EndedWith(c, "CancelRequest") :
         \E m \in 1..(k - 1) :
           SameKey(log[c].dispatched[m], log[c].dispatched[k])

\* C15 witness: a second Crawler dispatched a request whose fingerprint the
\* first Crawler had dispatched, and it was not cancelled.
C15_Witness ==
  /\ Len(log) = 2
  /\ \E k \in 1..Len(log[2].outcomes) :
       /\ log[2].outcomes[k].end # "CancelRequest"
       /\ \E m \in 1..Len(log[1].outcomes) :
            /\ SameKey(log[1].dispatched[m], log[2].dispatched[k])
            /\ log[1].outcomes[m].end # "CancelRequest"

\* The normalized output of the callback invocation in progress, and how far
\* the result loop has come in it.
Produced ==
  LET last == Len(Cur.invoked)
  IN to_iterable(callback(spider, Cur.invoked[last].name, Cur.received[last]))

HandledValues == SubSeq(Produced, 1, Len(Produced) - Len(results))

IsRequestValue(v) == isinstance(v, "Request")
IsItemValue(v) == ~isinstance(v, "Request")

\* C16: for a popped request whose chain result is a Response the request's
\* callback (parse when it had none) is invoked exactly once, on that
\* Response, and the values of its normalized output are handled one by one in
\* production order: while the result loop runs, the values not yet handled
\* are the rest of the output, the Requests among the handled ones are what
\* was appended to the Scheduler since the invocation (in order, at the tail),
\* and the other handled values are what was emitted since (in order); once
\* the loop is through nothing is left out and nothing came twice.
C16_CallbackOutputHandledOnce ==
  /\ (Len(log) > 0 /\ pc \in {"results", "yielded"}) =>
       LET queued == SelectSeq(HandledValues, IsRequestValue)
           items == SelectSeq(HandledValues, IsItemValue)
           at == Len(Cur.dispatched)
       IN /\ Len(results) <= Len(Produced)
          /\ results = SubSeq(Produced, Len(Produced) - Len(results) + 1,
                              Len(Produced))
          /\ SubSeq(Cur.enqueued, Cur.mark.enq + 1, Len(Cur.enqueued)) = queued
          /\ Len(requests) >= Len(queued)
          /\ SubSeq(requests, Len(requests) - Len(queued) + 1, Len(requests))
               = queued
          /\ SubSeq(Cur.output, Cur.mark.out + 1, Len(Cur.output))
               = [k \in 1..Len(items) |-> [item |-> items[k].value, by |-> at]]
          /\ Cur.invoked[Len(Cur.invoked)].at = at
  /\ \A c \in 1..Len(log) :
       /\ Len(log[c].invoked) = Len(log[c].received)
       /\ \A m, n \in 1..Len(log[c].invoked) :
            m < n => log[c].invoked[m].at < log[c].invoked[n].at
       /\ \A k \in 1..Len(log[c].outcomes) :
            IF log[c].outcomes[k].end = "Response"
            THEN \E m \in 1..Len(log[c].invoked) :
                   /\ log[c].invoked[m].at = k
                   /\ log[c].invoked[m].name =
                        IF log[c].enqueued[k].callback.type = "NoneType"
                        THEN "parse"
                        ELSE log[c].enqueued[k].callback.name
            ELSE \A m \in 1..Len(log[c].invoked) : log[c].invoked[m].at # k

\* C16 witness: the result loop has gone through an output that held a Request,
\* then an item, then another Request.
C16_Witness ==
  /\ Len(log) > 0
  /\ pc = "results"
  /\ Len(results) = 0
  /\ Len(Produced) = 3
  /\ IsRequestValue(Produced[1])
  /\ IsItemValue(Produced[2])
  /\ IsRequestValue(Produced[3])

\* C17: emission is lazy. Calling crawl() runs nothing: the call leaves the
\* Scheduler queue and the histories of enqueued, dispatched and fetched
\* requests and of callback invocations as they were, so before the first pull
\* of a new Crawler no seed is enqueued and nothing was fetched. While an item
\* is in the caller's hands no chain invocation is under way, the values that
\* follow the item in the callback output are all still pending, and the
\* Requests among them are not enqueued; nothing but the caller's next pull
\* moves the generator on, and the pull by itself fetches nothing, invokes no
\* callback and leaves the Scheduler queue as it is.
C17_LazyEmission ==
  /\ []((pc = "created" /\ Len(Cur.dispatched) = 0) =>
          /\ requests = <<>>
          /\ Cur.enqueued = <<>>
          /\ Cur.fetched = <<>>
          /\ cpc = "idle")
  /\ [](pc = "yielded" =>
          /\ cpc = "idle"
          /\ Len(HandledValues) > 0
          /\ Cur.output[Len(Cur.output)].item =
               HandledValues[Len(HandledValues)].value
          /\ results = SubSeq(Produced, Len(HandledValues) + 1, Len(Produced))
          /\ SubSeq(Cur.enqueued, Cur.mark.enq + 1, Len(Cur.enqueued))
               = SelectSeq(HandledValues, IsRequestValue))
  /\ [][pc' = "created" =>
          /\ requests' = requests
          /\ Cur'.enqueued = Cur.enqueued
          /\ Cur'.dispatched = Cur.dispatched
          /\ Cur'.fetched = Cur.fetched
          /\ Cur'.invoked = Cur.invoked]_vars
  /\ [][(pc = "created" /\ pc' # "constructed") => pc' = "loop"]_vars
  /\ [][(pc = "yielded" /\ pc' # "constructed") =>
          /\ pc' = "results"
          /\ requests' = requests
          /\ results' = results
          /\ files' = files
          /\ log' = log]_vars

\* C17 witness: an item is in the caller's hands while a Request that follows
\* it in the callback output is pending, and a request is queued.
C17_Witness ==
  /\ pc = "yielded"
  /\ Len(results) > 0
  /\ IsRequestValue(results[1])
  /\ Len(requests) > 0
  /\ \A k \in 1..Len(requests) : requests[k] # results[1]

\* C18 as stated: every Response that Downloader.fetch(r) returns carries
\* request = r, so the fingerprint under which
\* HttpCacheMiddleware.process_response stores it is fingerprint(r).
C18_ResponseCarriesRequest ==
  \A k \in IsOp("fetch") :
    isinstance(calls[k].out, "Response") =>
      /\ fingerprint(store_key(calls[k].out)) = fingerprint(calls[k].arg)
      /\ calls[k].out.request = calls[k].arg

\* The calls of the running process invocation made on HttpCacheMiddleware.
CacheCalls ==
  {k \in 1..Len(calls) :
     /\ calls[k].op # "fetch"
     /\ middlewares[calls[k].at] = "HttpCacheMiddleware"}

\* C19: with the cache not enabled HttpCacheMiddleware passes everything
\* through: its process_request returns the request and its process_response
\* the response it was given, whatever the cache directory holds for the
\* request (a stored entry is not used, an unreadable one raises nothing);
\* no step of a process invocation changes the cache directory; and every
\* request of such a Crawler that is not cancelled reaches the Downloader.
C19_DisabledCachePassesThrough ==
  /\ []((pc = "process" /\ ~enabled) =>
          \A k \in CacheCalls : calls[k].out = calls[k].arg)
  /\ [](\A c \in 1..Len(log) :
          ~log[c].enabled =>
            /\ log[c].ended # "UnpicklingError"
            /\ \A k \in 1..Len(log[c].outcomes) :
                 log[c].outcomes[k].end # "CancelRequest" =>
                   log[c].outcomes[k].fetched)
  /\ [][(pc = "process" /\ ~enabled) => files' = files]_vars

\* C19 witness: a Crawler with the cache not enabled has taken a request
\* through the chain while the cache directory held an entry for it: the
\* request was passed on, fetched, and the response passed back.
C19_Witness ==
  /\ pc = "process"
  /\ ~enabled
  /\ cpc = "returned"
  /\ \E k \in CacheCalls :
       /\ calls[k].op = "process_request"
       /\ calls[k].entry # "missing"
  /\ \E k \in CacheCalls : calls[k].op = "process_response"
  /\ IsOp("fetch") # {}

\* C20: the seen-set of a Crawler's DeduplicationMiddleware only grows. No
\* step taken within one Crawler instance removes a fingerprint from it; the
\* fingerprint of every request that has been through
\* DeduplicationMiddleware.process_request is in it, those of fetched requests
\* included, whatever became of the request afterwards (transport failure,
\* cancellation by a later middleware, a Request or a non-Response coming out
\* of the chain). Hence a request dispatched after one with the same
\* lower-cased URL in the same instance is cancelled and not fetched.
C20_SeenSetOnlyGrows ==
  /\ [][(Len(log) > 0 /\ Len(log') = Len(log)) =>
          seen_requests[1] \subseteq seen_requests'[1]]_vars
  /\ [](Len(log) > 0 =>
          /\ \A k \in 1..Len(Cur.dispatched) :
               (k < Len(Cur.dispatched) \/ pc # "process" \/ Len(calls) > 0) =>
                 fingerprint(Cur.dispatched[k]) \in seen_requests[1]
          /\ \A k \in 1..Len(Cur.fetched) :
               fingerprint(Cur.fetched[k]) \in seen_requests[1])
  /\ [](\A c \in 1..Len(log) :
          \A k \in 1..Len(log[c].outcomes) :
            (\E m \in 1..(k - 1) :
               SameKey(log[c].dispatched[m], log[c].dispatched[k])) =>
              /\ log[c].outcomes[k].end = "CancelRequest"
              /\ ~log[c].outcomes[k].fetched
              /\ ~log[c].outcomes[k].passed)

\* C20 witness: the chain returned a Request for a fetched page, the Crawler
\* re-enqueued it, and when it was dispatched in its turn it was cancelled;
\* in between, another request was cancelled by the user middleware.
C20_Witness ==
  /\ Len(log) > 0
  /\ \E m, k \in 1..Len(Cur.outcomes) :
       /\ m < k
       /\ Cur.outcomes[m].end = "Request"
       /\ Cur.outcomes[m].fetched
       /\ Cur.dispatched[k].url = Cur.dispatched[m].url
       /\ Cur.outcomes[k].end = "CancelRequest"
       /\ ~Cur.outcomes[k].fetched
       /\ \E n \in (m + 1)..(k - 1) :
            /\ Cur.outcomes[n].end = "CancelRequest"
            /\ \A o \in 1..(n - 1) :
                 ~SameKey(Cur.dispatched[o], Cur.dispatched[n])

====
